---- MODULE Spec2Model ----
(***************************************************************************)
(* The English date grammar of tn/english/rules/date.py: the year          *)
(* sub-grammars, the date tagger (text -> tagged record) and the date      *)
(* verbalizer (tagged record -> spoken text).                              *)
(*                                                                         *)
(* A string is a sequence of one-character strings.  A path is a pair     *)
(* <<output written so far, input still to read>>.  A transducer is an     *)
(* operator T(P) from a set of paths to the set of the paths it extends    *)
(* them to; concatenation is application in sequence, union is \cup, and   *)
(* an input is accepted when a path ends with nothing left to read.        *)
(***************************************************************************)
EXTENDS Integers, Sequences, FiniteSets, TLC

VARIABLES deterministic, input, pc, records, rec, spoken, years

vars == <<deterministic, input, pc, records, rec, spoken, years>>

-----------------------------------------------------------------------------
(* The transducer algebra (pynini, pynutil, Processor).                    *)

IsPrefix(p, s) == Len(p) <= Len(s) /\ SubSeq(s, 1, Len(p)) = p

IsSuffix(p, s) == Len(p) <= Len(s) /\ SubSeq(s, Len(s) - Len(p) + 1, Len(s)) = p

Drop(s, n) == SubSeq(s, n + 1, Len(s))

\* The one path of an input nothing of which is read yet.
Start(s) == {<<<<>>, s>>}

\* The paths Q of a sub-grammar started at the end of path p, joined to p.
Glue(p, Q) == {<<p[1] \o q[1], q[2]>> : q \in Q}

\* The outputs of the paths that read their whole input.
Full(P) == {p[1] : p \in {q \in P : q[2] = <<>>}}

\* pynini.cross(a, b): read a, write b.
cross(P, a, b) == {<<p[1] \o b, Drop(p[2], Len(a))>> : p \in {q \in P : IsPrefix(a, q[2])}}

\* pynini.accep(a): read a, write a.
accep(P, a) == cross(P, a, a)

\* pynutil.delete(a): read a, write nothing.
delete(P, a) == cross(P, a, <<>>)

\* pynutil.insert(b): read nothing, write b.
insert(P, b) == {<<p[1] \o b, p[2]>> : p \in P}

\* pynini.closure(pynutil.delete(a), 0, 1).
opt_delete(P, a) == P \cup delete(P, a)

\* pynini.string_map / string_file: the union of cross(t[1], t[2]) over a table.
string_map(P, table) == UNION {cross(P, table[i][1], table[i][2]) : i \in DOMAIN table}

\* plurals._priority_union(Q, R, sigma*): R only on the inputs Q does not accept.
\* Both start from one path, so a path's input is named by the rest it leaves.
priority_union(Q, R) == Q \cup {r \in R : \A q \in Q : q[2] # r[2]}

Digits == {"0", "1", "2", "3", "4", "5", "6", "7", "8", "9"}

\* Processor.DIGIT: one digit, copied.
DIGIT(P) ==
    {<<Append(p[1], p[2][1]), Tail(p[2])>> :
        p \in {q \in P : q[2] # <<>> /\ q[2][1] \in Digits}}

\* Processor.VCHAR closed under *: any prefix, copied.
VSIGMA(P) ==
    UNION {{<<p[1] \o SubSeq(p[2], 1, i), Drop(p[2], i)>> : i \in 0..Len(p[2])} : p \in P}

\* Processor.NOT_QUOTE closed under + : any non-empty prefix free of quotes.
NOT_QUOTE_PLUS(P) ==
    UNION {{<<p[1] \o SubSeq(p[2], 1, i), Drop(p[2], i)>> :
               i \in {j \in 1..Len(p[2]) : \A k \in 1..j : p[2][k] # "\""}} : p \in P}

\* Processor.INSERT_SPACE.
INSERT_SPACE(P) == insert(P, <<" ">>)

\* Processor.DELETE_SPACE: delete(SPACE).star, any number of the leading spaces.
DELETE_SPACE(P) ==
    UNION {{<<p[1], Drop(p[2], i)>> :
               i \in {j \in 0..Len(p[2]) : \A k \in 1..j : p[2][k] = " "}} : p \in P}

\* Processor.DELETE_EXTRA_SPACE: cross(closure(" ", 1), " ").
DELETE_EXTRA_SPACE(P) ==
    UNION {{<<p[1] \o <<" ">>, Drop(p[2], i)>> :
               i \in {j \in 1..Len(p[2]) : \A k \in 1..j : p[2][k] = " "}} : p \in P}

UpperCase == <<"A","B","C","D","E","F","G","H","I","J","K","L","M","N","O","P","Q","R","S","T","U","V","W","X","Y","Z">>

LowerCase == <<"a","b","c","d","e","f","g","h","i","j","k","l","m","n","o","p","q","r","s","t","u","v","w","x","y","z">>

IsUpper(c) == \E i \in 1..26 : UpperCase[i] = c

\* Processor.TO_LOWER on one character: an upper-case letter to its lower case.
ToLowerChar(c) == LowerCase[CHOOSE i \in 1..26 : UpperCase[i] = c]

-----------------------------------------------------------------------------
(* The lexical tables (english/data/...) and the numeral collaborators.    *)

\* data/number/teen.tsv, inverted: numeral -> word.
teen_tsv ==
    << <<<<"1","0">>, <<"t","e","n">>>>, <<<<"1","1">>, <<"e","l","e","v","e","n">>>>, <<<<"1","2">>, <<"t","w","e","l","v","e">>>>,
       <<<<"1","3">>, <<"t","h","i","r","t","e","e","n">>>>, <<<<"1","4">>, <<"f","o","u","r","t","e","e","n">>>>, <<<<"1","5">>, <<"f","i","f","t","e","e","n">>>>,
       <<<<"1","6">>, <<"s","i","x","t","e","e","n">>>>, <<<<"1","7">>, <<"s","e","v","e","n","t","e","e","n">>>>, <<<<"1","8">>, <<"e","i","g","h","t","e","e","n">>>>,
       <<<<"1","9">>, <<"n","i","n","e","t","e","e","n">>>> >>

\* data/number/digit.tsv, inverted.
digit_tsv ==
    << <<<<"1">>, <<"o","n","e">>>>, <<<<"2">>, <<"t","w","o">>>>, <<<<"3">>, <<"t","h","r","e","e">>>>, <<<<"4">>, <<"f","o","u","r">>>>,
       <<<<"5">>, <<"f","i","v","e">>>>, <<<<"6">>, <<"s","i","x">>>>, <<<<"7">>, <<"s","e","v","e","n">>>>, <<<<"8">>, <<"e","i","g","h","t">>>>,
       <<<<"9">>, <<"n","i","n","e">>>> >>

\* data/number/ty.tsv, inverted: the tens digit -> its word.
ty_tsv ==
    << <<<<"2">>, <<"t","w","e","n","t","y">>>>, <<<<"3">>, <<"t","h","i","r","t","y">>>>, <<<<"4">>, <<"f","o","r","t","y">>>>,
       <<<<"5">>, <<"f","i","f","t","y">>>>, <<<<"6">>, <<"s","i","x","t","y">>>>, <<<<"7">>, <<"s","e","v","e","n","t","y">>>>,
       <<<<"8">>, <<"e","i","g","h","t","y">>>>, <<<<"9">>, <<"n","i","n","e","t","y">>>> >>

\* data/date/year_suffix.tsv with augment_labels_with_punct_at_end.
year_suffix_tsv ==
    << <<<<"A",".","D">>, <<"A","D">>>>, <<<<"A",".","D",".">>, <<"A","D">>>>, <<<<"B",".","C">>, <<"B","C">>>>, <<<<"B",".","C",".">>, <<"B","C">>>> >>

\* data/date/month_name.tsv: the twelve month words.
month_name_tsv ==
    << <<"j","a","n","u","a","r","y">>, <<"f","e","b","r","u","a","r","y">>, <<"m","a","r","c","h">>, <<"a","p","r","i","l">>, <<"m","a","y">>, <<"j","u","n","e">>, <<"j","u","l","y">>,
       <<"a","u","g","u","s","t">>, <<"s","e","p","t","e","m","b","e","r">>, <<"o","c","t","o","b","e","r">>, <<"n","o","v","e","m","b","e","r">>, <<"d","e","c","e","m","b","e","r">> >>

\* data/date/month_abbr.tsv: abbreviation -> month word.
month_abbr_tsv ==
    << <<<<"j","a","n">>, <<"j","a","n","u","a","r","y">>>>, <<<<"f","e","b">>, <<"f","e","b","r","u","a","r","y">>>>, <<<<"m","a","r">>, <<"m","a","r","c","h">>>>,
       <<<<"a","p","r">>, <<"a","p","r","i","l">>>>, <<<<"j","u","n">>, <<"j","u","n","e">>>>, <<<<"j","u","l">>, <<"j","u","l","y">>>>,
       <<<<"a","u","g">>, <<"a","u","g","u","s","t">>>>, <<<<"s","e","p">>, <<"s","e","p","t","e","m","b","e","r">>>>, <<<<"s","e","p","t">>, <<"s","e","p","t","e","m","b","e","r">>>>,
       <<<<"o","c","t">>, <<"o","c","t","o","b","e","r">>>>, <<<<"n","o","v">>, <<"n","o","v","e","m","b","e","r">>>>, <<<<"d","e","c">>, <<"d","e","c","e","m","b","e","r">>>> >>

\* data/date/month_number.tsv: "1".."12" and "01".."09" -> month word.
month_number_tsv ==
    << <<<<"1">>, <<"j","a","n","u","a","r","y">>>>, <<<<"2">>, <<"f","e","b","r","u","a","r","y">>>>, <<<<"3">>, <<"m","a","r","c","h">>>>,
       <<<<"4">>, <<"a","p","r","i","l">>>>, <<<<"5">>, <<"m","a","y">>>>, <<<<"6">>, <<"j","u","n","e">>>>, <<<<"7">>, <<"j","u","l","y">>>>,
       <<<<"8">>, <<"a","u","g","u","s","t">>>>, <<<<"9">>, <<"s","e","p","t","e","m","b","e","r">>>>, <<<<"1","0">>, <<"o","c","t","o","b","e","r">>>>,
       <<<<"1","1">>, <<"n","o","v","e","m","b","e","r">>>>, <<<<"1","2">>, <<"d","e","c","e","m","b","e","r">>>>,
       <<<<"0","1">>, <<"j","a","n","u","a","r","y">>>>, <<<<"0","2">>, <<"f","e","b","r","u","a","r","y">>>>, <<<<"0","3">>, <<"m","a","r","c","h">>>>,
       <<<<"0","4">>, <<"a","p","r","i","l">>>>, <<<<"0","5">>, <<"m","a","y">>>>, <<<<"0","6">>, <<"j","u","n","e">>>>, <<<<"0","7">>, <<"j","u","l","y">>>>,
       <<<<"0","8">>, <<"a","u","g","u","s","t">>>>, <<<<"0","9">>, <<"s","e","p","t","e","m","b","e","r">>>> >>

graph_teen(P) == string_map(P, teen_tsv)

graph_digit(P) == string_map(P, digit_tsv)

ties_graph(P) == string_map(P, ty_tsv)

year_suffix(P) == string_map(P, year_suffix_tsv)

\* Cardinal.graph_hundred_component_at_least_one_none_zero_digit on the one-
\* and two-digit numerals date.py hands it: the cardinal words of a numeral
\* written without a leading zero; "0" and zero-led numerals have no path.
cardinal_graph(P) ==
    graph_digit(P)
    \cup graph_teen(P)
    \cup graph_digit(INSERT_SPACE(ties_graph(P)))
    \cup delete(ties_graph(P), <<"0">>)

\* Cardinal.single_digits_graph: digit by digit, "zero" for 0, single spaces.
RECURSIVE single_digits_graph(_)
single_digits_graph(P) ==
    LET one == graph_digit(P) \cup cross(P, <<"0">>, <<"z","e","r","o">>)
    IN  IF one = {} THEN {} ELSE one \cup single_digits_graph(INSERT_SPACE(one))

\* data/date/day.tsv: the cardinal words of the days 1..31.
day_tsv ==
    UNION {Full(cardinal_graph(Start(n))) :
              n \in {<<a>> : a \in Digits \ {"0"}}
                    \cup {<<a, b>> : a \in {"1", "2"}, b \in Digits}
                    \cup {<<"3","0">>, <<"3","1">>}}

\* Ordinal words of the cardinal words an ordinal can end in.
ordinal_tsv ==
    << <<<<"o","n","e">>, <<"f","i","r","s","t">>>>, <<<<"t","w","o">>, <<"s","e","c","o","n","d">>>>, <<<<"t","h","r","e","e">>, <<"t","h","i","r","d">>>>,
       <<<<"f","o","u","r">>, <<"f","o","u","r","t","h">>>>, <<<<"f","i","v","e">>, <<"f","i","f","t","h">>>>, <<<<"s","i","x">>, <<"s","i","x","t","h">>>>,
       <<<<"s","e","v","e","n">>, <<"s","e","v","e","n","t","h">>>>, <<<<"e","i","g","h","t">>, <<"e","i","g","h","t","h">>>>, <<<<"n","i","n","e">>, <<"n","i","n","t","h">>>>,
       <<<<"t","e","n">>, <<"t","e","n","t","h">>>>, <<<<"e","l","e","v","e","n">>, <<"e","l","e","v","e","n","t","h">>>>, <<<<"t","w","e","l","v","e">>, <<"t","w","e","l","f","t","h">>>>,
       <<<<"t","h","i","r","t","e","e","n">>, <<"t","h","i","r","t","e","e","n","t","h">>>>, <<<<"f","o","u","r","t","e","e","n">>, <<"f","o","u","r","t","e","e","n","t","h">>>>,
       <<<<"f","i","f","t","e","e","n">>, <<"f","i","f","t","e","e","n","t","h">>>>, <<<<"s","i","x","t","e","e","n">>, <<"s","i","x","t","e","e","n","t","h">>>>,
       <<<<"s","e","v","e","n","t","e","e","n">>, <<"s","e","v","e","n","t","e","e","n","t","h">>>>, <<<<"e","i","g","h","t","e","e","n">>, <<"e","i","g","h","t","e","e","n","t","h">>>>,
       <<<<"n","i","n","e","t","e","e","n">>, <<"n","i","n","e","t","e","e","n","t","h">>>>, <<<<"t","w","e","n","t","y">>, <<"t","w","e","n","t","i","e","t","h">>>>,
       <<<<"t","h","i","r","t","y">>, <<"t","h","i","r","t","i","e","t","h">>>> >>

\* Ordinal.suffix: a cardinal phrase to its ordinal, the last word rewritten
\* ("twenty one" -> "twenty first"); the words before it are copied.
ordinal_suffix(P) ==
    string_map(P \cup accep(accep(P, <<"t","w","e","n","t","y">>) \cup accep(P, <<"t","h","i","r","t","y">>), <<" ">>),
               ordinal_tsv)

-----------------------------------------------------------------------------
(* The year grammars.                                                      *)

\* get_ties_graph: a two-digit numeral to its spoken form.
get_ties_graph(det, P) ==
    graph_teen(P)
    \cup delete(ties_graph(P), <<"0">>)
    \cup graph_digit(INSERT_SPACE(ties_graph(P)
                                  \cup cross(P, <<"0">>, <<"o","h">>)
                                  \cup (IF det THEN {} ELSE cross(P, <<"0">>, <<"z","e","r","o">>))))

\* cdrewrite(cross("y", "ies") | insert("s"), "", "[EOS]", sigma*) on a spoken
\* form: a final "y" becomes "ies", any other ending gets an "s".
plural_rewrite(o) ==
    IF o # <<>> /\ o[Len(o)] = "y"
    THEN SubSeq(o, 1, Len(o) - 1) \o <<"i","e","s">>
    ELSE o \o <<"s">>

\* cdrewrite(cross("y", "ies"), "", "[EOS]", sigma*): a final "y" becomes "ies".
ies_rewrite(o) ==
    IF o # <<>> /\ o[Len(o)] = "y"
    THEN SubSeq(o, 1, Len(o) - 1) \o <<"i","e","s">>
    ELSE o

\* graph_with_s of get_four_digit_year_graph, before its plural rewrite: the
\* closing delete("0s") follows the whole union of the two alternatives,
\* (ties ties | teen (tens-digit | "1")) + delete("0s"); `pair` is ties ties.
graph_with_s(pair, first, P) ==
    delete(pair \cup (ties_graph(INSERT_SPACE(graph_teen(P)))
                      \cup cross(INSERT_SPACE(graph_teen(P)), <<"1">>, <<"t","e","n">>)),
           <<"0","s">>)
    \cup delete(cross(INSERT_SPACE(graph_teen(P) \cup first), <<"0","0">>, <<"h","u","n","d","r","e","d">>), <<"s">>)

\* thousand_graph of get_four_digit_year_graph.
thousand_graph(P) ==
    graph_digit(INSERT_SPACE(cross(INSERT_SPACE(graph_digit(P)), <<"0","0">>, <<"t","h","o","u","s","a","n","d">>)))
    \cup delete(cross(INSERT_SPACE(graph_digit(P)), <<"0","0">>, <<"t","h","o","u","s","a","n","d">>), <<"0">>)
    \cup accep(opt_delete(cross(INSERT_SPACE(graph_digit(P)), <<"0","0","0">>, <<"t","h","o","u","s","a","n","d">>), <<" ">>),
               <<"s">>)

\* graph of get_four_digit_year_graph before the thousand form joins it, from
\* one path p: the pairs, the hundreds, and graph_with_s through its rewrite.
paired_graph(det, p) ==
    LET first == get_ties_graph(det, {p})
        pair == get_ties_graph(det, INSERT_SPACE(first))
    IN  pair
        \cup cross(INSERT_SPACE(graph_teen({p}) \cup first), <<"0","0">>, <<"h","u","n","d","r","e","d">>)
        \cup {<<p[1] \o plural_rewrite(Drop(q[1], Len(p[1]))), q[2]>> :
                 q \in graph_with_s(pair, first, {p})}

\* get_four_digit_year_graph joining the thousand form by plain union in
\* both modes.
get_four_digit_year_graph_union(det, P) ==
    UNION {paired_graph(det, p) \cup thousand_graph({p}) : p \in P}

\* get_four_digit_year_graph.
get_four_digit_year_graph(det, P) ==
    UNION {IF det THEN priority_union(thousand_graph({p}), paired_graph(det, p))
                  ELSE paired_graph(det, p) \cup thousand_graph({p}) : p \in P}

\* _get_two_digit_year_with_s_graph: '70s -> seventies.
_get_two_digit_year_with_s_graph(P) ==
    UNION {{<<p[1] \o ies_rewrite(Drop(q[1], Len(p[1]))), q[2]>> :
               q \in delete(ties_graph({p}), <<"0","s">>)} : p \in opt_delete(P, <<"'">>)}

\* three_digit_year of _get_year_graph: 123 -> one twenty three.
three_digit_year(P) ==
    LET head == UNION {Glue(p, UNION {{<<o, a[2]>> :
                                          o \in Full(cardinal_graph(Start(a[1])))} :
                                         a \in DIGIT(Start(p[2]))}) : p \in P}
    IN  UNION {Glue(p, UNION {{<<o, a[2]>> :
                                  o \in Full(cardinal_graph(Start(a[1])))} :
                                 a \in DIGIT(DIGIT(Start(p[2])))}) :
                  p \in INSERT_SPACE(head)}

\* The input side of the four-digit branch of _get_year_graph: "1" or "2",
\* three digits, and an optional "s", written " s" or "s".
year_shape(P) ==
    LET digits == DIGIT(DIGIT(DIGIT(accep(P, <<"1">>) \cup accep(P, <<"2">>))))
    IN  digits \cup cross(digits, <<" ","s">>, <<"s">>) \cup accep(digits, <<"s">>)

\* _get_year_graph.
_get_year_graph(det, P) ==
    UNION {Glue(p, UNION {{<<o, a[2]>> :
                              o \in Full(get_four_digit_year_graph(det, Start(a[1])))} :
                             a \in year_shape(Start(p[2]))}) : p \in P}
    \cup _get_two_digit_year_with_s_graph(P)
    \cup year_suffix(INSERT_SPACE(DELETE_SPACE(get_four_digit_year_graph(TRUE, P)
                                               \cup three_digit_year(P))))

\* _get_two_digit_year: the cardinal reading, digit by digit only when the
\* cardinal has none.
_get_two_digit_year(P) ==
    UNION {Glue(p, UNION {{<<o, a[2]>> :
                              o \in Full(priority_union(cardinal_graph(Start(a[1])),
                                                        single_digits_graph(Start(a[1]))))} :
                             a \in DIGIT(DIGIT(Start(p[2])))}) : p \in P}

\* h_ordinals given the four ordinals of q_ordinals.
h_ordinals_of_quarters(P) ==
    cross(P, <<"1">>, <<"f","i","r","s","t">>) \cup cross(P, <<"2">>, <<"s","e","c","o","n","d">>)
    \cup cross(P, <<"3">>, <<"t","h","i","r","d">>) \cup cross(P, <<"4">>, <<"f","o","u","r","t","h">>)

\* h_ordinals and q_ordinals of _get_financial_period_graph.
h_ordinals(P) == cross(P, <<"1">>, <<"f","i","r","s","t">>) \cup cross(P, <<"2">>, <<"s","e","c","o","n","d">>)

q_ordinals(P) == h_ordinals(P) \cup cross(P, <<"3">>, <<"t","h","i","r","d">>) \cup cross(P, <<"4">>, <<"f","o","u","r","t","h">>)

\* _get_financial_period_graph: 1H -> first half, 3Q -> third quarter.
_get_financial_period_graph(P) ==
    cross(h_ordinals(P), <<"H">>, <<" ","h","a","l","f">>) \cup cross(q_ordinals(P), <<"Q">>, <<" ","q","u","a","r","t","e","r">>)

-----------------------------------------------------------------------------
(* Date.build_tagger.                                                      *)

\* One table word w read in lower case, Capitalized or in UPPER CASE
\* (compose(TO_LOWER + closure(...), g) | compose(TO_LOWER ** (2, ...), g)),
\* written as `out`.
cased(P, w, out) ==
    LET low(c) == IF IsUpper(c) THEN ToLowerChar(c) ELSE c
        reads(s) ==
            /\ Len(s) >= Len(w)
            /\ \/ SubSeq(s, 1, Len(w)) = w
               \/ /\ Len(w) >= 2
                  /\ IsUpper(s[1])
                  /\ [i \in 1..Len(w) |-> IF i = 1 THEN low(s[1]) ELSE s[i]] = w
               \/ /\ Len(w) >= 2
                  /\ \A i \in 1..Len(w) : IsUpper(s[i])
                  /\ [i \in 1..Len(w) |-> low(s[i])] = w
    IN  {<<p[1] \o out, Drop(p[2], Len(w))>> : p \in {q \in P : reads(q[2])}}

\* month_graph: a month name, or an abbreviation with an optional ".", tagged.
month_graph(P) ==
    LET open == insert(P, <<"m","o","n","t","h",":"," ","\"">>)
    IN  insert(UNION {cased(open, month_name_tsv[i], month_name_tsv[i]) :
                         i \in DOMAIN month_name_tsv}
               \cup opt_delete(UNION {cased(open, month_abbr_tsv[i][1], month_abbr_tsv[i][2]) :
                                         i \in DOMAIN month_abbr_tsv},
                               <<".">>),
               <<"\"">>)

\* month_numbers_graph: a month number, tagged.
month_numbers_graph(P) ==
    insert(string_map(insert(P, <<"m","o","n","t","h",":"," ","\"">>), month_number_tsv), <<"\"">>)

\* endings: the ordinal suffixes a day numeral may carry, in either case.
endings == {<<"r","d">>, <<"t","h">>, <<"s","t">>, <<"n","d">>, <<"R","D">>, <<"T","H">>, <<"S","T">>, <<"N","D">>}

\* day_numeral without the bound on the ones digit after a tens digit 3:
\* any one or two digits.
day_numeral_any_tens(P) == DIGIT(DIGIT(P)) \cup DIGIT(P)

\* The numeral shapes day_graph admits: 1x, 2x, x, 30, 31.
day_numeral(P) ==
    DIGIT(accep(P, <<"1">>) \cup accep(P, <<"2">>))
    \cup DIGIT(P)
    \cup accep(accep(P, <<"3">>), <<"0">>)
    \cup accep(accep(P, <<"3">>), <<"1">>)

\* day_graph: an optional "the ", a day numeral with its ordinal suffix
\* stripped, spelled by the cardinal grammar, tagged.
day_graph(P) ==
    insert(UNION {Glue(p, UNION {{<<o, a[2]>> :
                                     o \in Full(cardinal_graph(Start(a[1])))} :
                                    a \in LET n == day_numeral(Start(p[2]))
                                          IN  n \cup UNION {delete(n, e) : e \in endings}}) :
                     p \in opt_delete(insert(P, <<"d","a","y",":"," ","\"">>), <<"t","h","e"," ">>)},
           <<"\"">>)

\* two_digit_year, tagged.
two_digit_year(P) ==
    insert(_get_two_digit_year(insert(P, <<"y","e","a","r",":"," ","\"">>)), <<"\"">>)

\* graph_year deleting the comma it reads instead of keeping it.
graph_year_drops_comma(det, P) ==
    LET open == insert(P, <<" ","y","e","a","r",":"," ","\"">>)
        comma == delete(open, <<",">>)
    IN  insert(_get_year_graph(det, delete(open, <<" ">>)
                                    \cup comma
                                    \cup accep(comma, <<" ">>)),
               <<"\"">>)

\* graph_year: the year after a named-month date, behind a space or a comma;
\* the comma (and a space after it) stays in the year field.
graph_year(det, P) ==
    LET open == insert(P, <<" ","y","e","a","r",":"," ","\"">>)
        comma == accep(open, <<",">>)
    IN  insert(_get_year_graph(det, delete(open, <<" ">>)
                                    \cup comma
                                    \cup accep(comma, <<" ">>)),
               <<"\"">>)

\* year_graph as rebound for the numeric families and the year-only family.
year_graph(det, P) ==
    insert(_get_year_graph(det, insert(P, <<"y","e","a","r",":"," ","\"">>)), <<"\"">>)

\* The separators of the numeric families.
separators == {<<"-">>, <<"/">>, <<".">>}

\* The numeric month-day-year alternatives of graph_mdy:
\* month-number sep [0]day sep, for each separator x, then a year.
numeric_mdy(det, P) ==
    LET upto == UNION {INSERT_SPACE(delete(
                           day_graph(opt_delete(INSERT_SPACE(delete(month_numbers_graph(P), x)),
                                                <<"0">>)), x)) : x \in separators}
    IN  year_graph(det, upto) \cup two_digit_year(upto)

\* graph_mdy.
graph_mdy(det, P) ==
    LET month == month_graph(P)
        month_day == day_graph(DELETE_EXTRA_SPACE(month))
        dashed == day_graph(cross(month, <<"-">>, <<" ">>))
    IN  month_day
        \cup day_graph(accep(month, <<" ">>))
        \cup graph_year(det, month \cup month_day)
        \cup dashed
        \cup UNION {Glue(p, UNION {{<<o, a[2]>> :
                                       o \in Full(graph_year(det, Start(a[1])))} :
                                      a \in VSIGMA(cross(Start(p[2]), <<"-">>, <<" ">>))}) :
                       p \in dashed}
        \cup numeric_mdy(det, P)

\* day_ex_month without the difference: any two-digit numeral read as a day.
day_ex_month_unfiltered(P) ==
    UNION {Glue(p, UNION {{<<o, a[2]>> : o \in Full(day_graph(Start(a[1])))} :
                             a \in DIGIT(DIGIT(Start(p[2])))}) : p \in P}

\* day_ex_month: a two-digit numeral that is no input of the month-number
\* table, read as a day.
day_ex_month(P) ==
    UNION {Glue(p, UNION {{<<o, a[2]>> : o \in Full(day_graph(Start(a[1])))} :
                             a \in {b \in DIGIT(DIGIT(Start(p[2]))) :
                                       \A i \in DOMAIN month_number_tsv :
                                           month_number_tsv[i][1] # b[1]}}) : p \in P}

\* The numeric alternatives of graph_dmy: day sep month-number sep year.
numeric_dmy(det, P) ==
    LET upto == UNION {INSERT_SPACE(delete(
                           month_numbers_graph(INSERT_SPACE(delete(day_ex_month(P), x))),
                           x)) : x \in separators}
    IN  year_graph(det, upto) \cup two_digit_year(upto)

\* graph_dmy.
graph_dmy(det, P) ==
    LET day_month == month_graph(DELETE_EXTRA_SPACE(day_graph(P)))
    IN  day_month \cup graph_year(det, day_month) \cup numeric_dmy(det, P)

\* graph_ymd: the empty string, or year sep month-number sep [0]day.
graph_ymd(det, P) ==
    LET year == year_graph(det, P) \cup two_digit_year(P)
    IN  accep(P, <<>>)
        \cup day_graph(opt_delete(
                 UNION {INSERT_SPACE(delete(
                            month_numbers_graph(INSERT_SPACE(delete(year, x))), x)) :
                           x \in separators},
                 <<"0">>))

\* m_sep_d: month-number, "-" or "/", [0]day; bound in multi-output mode only.
m_sep_d(P) ==
    LET month == month_numbers_graph(P)
    IN  day_graph(opt_delete(INSERT_SPACE(delete(month, <<"-">>) \cup delete(month, <<"/">>)),
                             <<"0">>))

preserve_order == <<" ","p","r","e","s","e","r","v","e","_","o","r","d","e","r",":"," ","\"","t","r","u","e","\"">>

\* graph_fy: the financial period and its two-digit year.
graph_fy(P) ==
    two_digit_year(INSERT_SPACE(insert(_get_financial_period_graph(insert(P, <<"t","e","x","t",":"," ","\"">>)),
                                       <<"\"">>)))

\* final_graph before the reorder lattices are joined to it, from the
\* month-first paths mdy, the day-first paths dmy and the paths of m_sep_d.
final_graph(det, mdy, dmy, msd, P) ==
    (IF det
     THEN insert(mdy \cup dmy, preserve_order)
     ELSE mdy \cup dmy \cup insert(mdy \cup dmy, preserve_order) \cup msd)
    \cup year_graph(det, P)
    \cup graph_fy(P)

\* The (month, day) pairs the reorder lattices are built over.
month_day_pairs ==
    {<<month_name_tsv[i], d>> : i \in DOMAIN month_name_tsv, d \in day_tsv}

month_day(m, d) == <<"m","o","n","t","h",":"," ","\"">> \o m \o <<"\""," ","d","a","y",":"," ","\"">> \o d \o <<"\"">>

day_month(m, d) == <<"d","a","y",":"," ","\"">> \o d \o <<"\""," ","m","o","n","t","h",":"," ","\"">> \o m \o <<"\"">>

\* ymd_to_mdy_graph: the year-month-day records ymd rewritten month, day, year.
ymd_to_mdy_graph(ymd) ==
    UNION {{<<month_day(md[1], md[2]) \o <<" ">>
                 \o SubSeq(p[1], 1, Len(p[1]) - Len(month_day(md[1], md[2])) - 1), p[2]>> :
               p \in {q \in ymd : /\ IsPrefix(<<"y","e","a","r",":">>, q[1])
                                  /\ IsSuffix(<<" ">> \o month_day(md[1], md[2]), q[1])
                                  /\ Len(q[1]) >= 6 + Len(month_day(md[1], md[2]))}} :
              md \in month_day_pairs}

\* ymd_to_dmy_graph: the year-month-day records ymd rewritten day, month, year.
ymd_to_dmy_graph(ymd) ==
    UNION {{<<day_month(md[1], md[2]) \o <<" ">>
                 \o SubSeq(p[1], 1, Len(p[1]) - Len(month_day(md[1], md[2])) - 1), p[2]>> :
               p \in {q \in ymd : /\ IsPrefix(<<"y","e","a","r",":">>, q[1])
                                  /\ IsSuffix(<<" ">> \o month_day(md[1], md[2]), q[1])
                                  /\ Len(q[1]) >= 6 + Len(month_day(md[1], md[2]))}} :
              md \in month_day_pairs}

\* mdy_to_dmy_graph: the month-day-year records mdy rewritten day, month, year.
mdy_to_dmy_graph(mdy) ==
    UNION {{<<day_month(md[1], md[2]) \o <<" ">>
                 \o Drop(p[1], Len(month_day(md[1], md[2])) + 1), p[2]>> :
               p \in {q \in mdy : IsPrefix(month_day(md[1], md[2]) \o <<" ","y","e","a","r",":">>, q[1])}} :
              md \in month_day_pairs}

\* md_to_dm_graph: the month/day records msd rewritten day, month.
md_to_dm_graph(msd) ==
    UNION {{<<day_month(md[1], md[2]), p[2]>> :
               p \in {q \in msd : q[1] = month_day(md[1], md[2])}} :
              md \in month_day_pairs}

\* Processor.add_tokens: date { ... }.
add_tokens(P) == {<<<<"d","a","t","e"," ","{"," ">> \o p[1] \o <<" ","}">>, p[2]>> : p \in P}

\* self.tagger: final_graph joined with the mode's reorder lattices, in tokens.
tagger_graph(det, s) ==
    LET mdy == graph_mdy(det, Start(s))
        dmy == graph_dmy(det, Start(s))
        ymd == graph_ymd(det, Start(s))
        msd == m_sep_d(Start(s))
    IN  add_tokens(final_graph(det, mdy, dmy, msd, Start(s))
                   \cup (IF det
                         THEN ymd_to_mdy_graph(ymd)
                         ELSE mdy_to_dmy_graph(mdy) \cup md_to_dm_graph(msd)
                              \cup ymd_to_dmy_graph(ymd)))

\* The tagged records of an input: the outputs of the paths that read it all.
tag(det, s) == Full(tagger_graph(det, s))

-----------------------------------------------------------------------------
(* Date.build_verbalizer.                                                  *)

\* <name> DELETE_SPACE "\"" NOT_QUOTE+ "\"": a field's content, the shape of
\* day_cardinal, period and month.
field(P, name) ==
    delete(NOT_QUOTE_PLUS(delete(DELETE_SPACE(delete(P, name)), <<"\"">>)), <<"\"">>)

\* day_cardinal: the day field's words, as they are.
day_cardinal(P) == field(P, <<"d","a","y",":">>)

\* day: the day field's words as an ordinal.
verbalizer_day(P) ==
    UNION {Glue(p, UNION {{<<o, a[2]>> : o \in Full(ordinal_suffix(Start(a[1])))} :
                             a \in day_cardinal(Start(p[2]))}) : p \in P}

\* period: the text field's words.
verbalizer_period(P) == field(P, <<"t","e","x","t",":">>)

\* month: the month field's words.
verbalizer_month(P) == field(P, <<"m","o","n","t","h",":">>)

\* year: the year field's content, whatever it holds but a quote.
verbalizer_year(P) ==
    delete(DELETE_SPACE(NOT_QUOTE_PLUS(delete(DELETE_SPACE(delete(P, <<"y","e","a","r",":">>)), <<"\"">>))),
           <<"\"">>)

\* closure(DELETE_EXTRA_SPACE + year, 0, 1).
optional_year(P) == P \cup verbalizer_year(DELETE_EXTRA_SPACE(P))

\* graph_fy: the <period> of [<year>].
verbalizer_graph_fy(P) ==
    optional_year(insert(verbalizer_period(insert(P, <<"t","h","e"," ">>)), <<" ","o","f">>))

\* graph_mdy: <month> [<day>] [<year>]; the day as an ordinal, and in
\* multi-output mode also as the cardinal it is.
verbalizer_graph_mdy(det, P) ==
    LET month == verbalizer_month(P)
        spaced == DELETE_EXTRA_SPACE(month)
    IN  optional_year(month
                      \cup verbalizer_day(spaced)
                      \cup (IF det THEN {} ELSE day_cardinal(spaced)))

\* graph_dmy without its leading "the ".
verbalizer_graph_dmy_bare(P) ==
    optional_year(verbalizer_month(insert(DELETE_EXTRA_SPACE(verbalizer_day(P)), <<"o","f"," ">>)))

\* graph_dmy: the <day> of <month> [<year>].
verbalizer_graph_dmy(P) ==
    optional_year(verbalizer_month(insert(DELETE_EXTRA_SPACE(verbalizer_day(insert(P, <<"t","h","e"," ">>))),
                                          <<"o","f"," ">>)))

\* Processor.NOT_QUOTE: one character that is no quote, copied.
NOT_QUOTE(P) ==
    {<<Append(p[1], p[2][1]), Tail(p[2])>> :
        p \in {q \in P : q[2] # <<>> /\ q[2][1] # "\""}}

\* optional_preserve_order: any number of order fields; preserve_order is
\* deleted whole, field_order is deleted around the one character of its value.
RECURSIVE optional_preserve_order(_)
optional_preserve_order(P) ==
    LET one == DELETE_SPACE(delete(DELETE_SPACE(delete(P, <<"p","r","e","s","e","r","v","e","_","o","r","d","e","r",":">>)),
                                   <<"\"","t","r","u","e","\"">>))
               \cup DELETE_SPACE(delete(NOT_QUOTE(delete(DELETE_SPACE(delete(P, <<"f","i","e","l","d","_","o","r","d","e","r",":">>)),
                                                         <<"\"">>)),
                                        <<"\"">>))
    IN  IF one = {} THEN P ELSE P \cup optional_preserve_order(one)

\* final_graph of the verbalizer: month-first before day-first, or the year
\* alone, or the financial period; then the order fields.
verbalizer_final_graph(det, P) ==
    optional_preserve_order(DELETE_SPACE(
        UNION {priority_union(verbalizer_graph_mdy(det, {p}), verbalizer_graph_dmy({p})) :
                  p \in P}
        \cup verbalizer_year(P)
        \cup verbalizer_graph_fy(P)))

\* Processor.delete_tokens around it: self.verbalizer.
verbalizer_graph(det, P) ==
    opt_delete(delete(verbalizer_final_graph(det, delete(delete(P, <<"d","a","t","e">>), <<" ","{"," ">>)),
                      <<" ","}">>),
               <<" ">>)

\* The spoken forms of a tagged record.
verbalize(det, r) == Full(verbalizer_graph(det, Start(r)))

-----------------------------------------------------------------------------
(* The inputs.                                                             *)

\* Day numerals are drawn from 0..MaxDay, four-digit numerals lead with a
\* digit of 1..MaxLead.
MaxDay == 41

MaxLead == 3

DigitChar == <<"0","1","2","3","4","5","6","7","8","9">>

\* The decimal numeral of n < 100.
Dec(n) == IF n < 10 THEN <<DigitChar[n + 1]>>
          ELSE <<DigitChar[(n \div 10) + 1], DigitChar[(n % 10) + 1]>>

\* Numerals of 0..MaxDay, as they are and behind one more zero.
DayNumerals == {Dec(n) : n \in 0..MaxDay} \cup {<<"0">> \o Dec(n) : n \in 0..MaxDay}

\* The numerals among them that denote no day of 1..31.
InvalidDayNumerals ==
    {Dec(n) : n \in {0} \cup 32..MaxDay} \cup {<<"0">> \o Dec(n) : n \in {0} \cup 32..MaxDay}

Templates == 1..14

\* A day numeral in the day position of each family.
Template(k, D) ==
    CASE k = 1  -> <<"j","a","n"," ">> \o D
      [] k = 2  -> <<"J","a","n","."," ">> \o D \o <<","," ","2","0","1","2">>
      [] k = 3  -> <<"J","A","N","U","A","R","Y"," ">> \o D \o <<"t","h">>
      [] k = 4  -> <<"j","a","n","-">> \o D \o <<"-","2","0","1","2">>
      [] k = 5  -> D \o <<" ","j","a","n","u","a","r","y"," ","2","0","1","2">>
      [] k = 6  -> <<"t","h","e"," ">> \o D \o <<"s","t"," ","J","a","n">>
      [] k = 7  -> <<"0","1","/">> \o D \o <<"/","2","0","1","2">>
      [] k = 8  -> <<"1","2","-">> \o D \o <<"-","0","5">>
      [] k = 9  -> D \o <<"/","0","6","/","2","0","1","2">>
      [] k = 10 -> D \o <<".","0","1",".","0","5">>
      [] k = 11 -> <<"2","0","1","2","-","0","1","-">> \o D
      [] k = 12 -> <<"1","2","/","0","1","/">> \o D
      [] k = 13 -> <<"0","1","/">> \o D
      [] k = 14 -> <<"1","-">> \o D

\* The templates whose day position can be read as nothing but a day.
DayOnlyTemplates == Templates \ {10, 12}

DayInputs == {Template(k, D) : k \in Templates, D \in DayNumerals}

\* Numeric year-month-day inputs Y-MM-DD.
Ymd(Y, MM, DD) == Y \o <<"-">> \o MM \o <<"-">> \o DD

YmdYears == {<<"2","0","1","2">>, <<"1","9","0","0">>, <<"2","0","0","5">>, <<"1","9","8","4">>, <<"2","0","0","0">>}

YmdMonths == {<<"0","1">>, <<"1","0">>, <<"1","2">>}

YmdDays == {<<"0","5">>, <<"1","5">>, <<"3","1">>}

\* The named-month input "<abbreviation>. D, Y" of the same date.
Named(Y, MM, DD) ==
    LET abbr == CASE MM = <<"0","1">> -> <<"j","a","n">> [] MM = <<"1","0">> -> <<"o","c","t">> [] MM = <<"1","2">> -> <<"d","e","c">>
        D == IF DD[1] = "0" THEN Tail(DD) ELSE DD
    IN  abbr \o <<"."," ">> \o D \o <<","," ">> \o Y

RoundTripInputs ==
    {Ymd(Y, MM, DD) : Y \in YmdYears, MM \in YmdMonths, DD \in YmdDays}
    \cup {Named(Y, MM, DD) : Y \in YmdYears, MM \in YmdMonths, DD \in YmdDays}

\* Financial period shorthand: a digit, H or Q, a two-digit year.
Period(d, X, yy) == <<d, X>> \o yy

PeriodYears == {<<"2","3">>, <<"0","5">>}

PeriodInputs == {Period(d, X, yy) : d \in Digits, X \in {"H", "Q"}, yy \in PeriodYears}

\* Four-digit numerals, bare or with a plural "s".
YearInputs ==
    {<<DigitChar[a + 1], b, c, d>> \o e :
        a \in 1..MaxLead, b \in Digits, c \in Digits, d \in {"0", "5"}, e \in {<<>>, <<"s">>}}

OtherInputs ==
    {<<"1","2","-","0","1","-","0","5">>, <<"0","5","/","0","6","-","2","0","1","2">>, <<"'","7","0","s">>, <<"7","0","s">>, <<"1","2","3"," ","A",".","D",".">>, <<"4","2","0","0"," ","B",".","C">>, <<"1","2","3">>,
     <<"2","0","0","0"," ","s">>, <<"m","a","y"," ","5">>, <<"5"," ","j","a","n","u","a","r","y"," ","2","0","1","2">>, <<"j","a","n","."," ","5">>, <<"J","a","n","u","a","r","y"," ","2","0","1","2">>, <<"n","e","x","t"," ","t","u","e","s","d","a","y">>}

Inputs == DayInputs \cup RoundTripInputs \cup PeriodInputs \cup YearInputs \cup OtherInputs

-----------------------------------------------------------------------------
(* The program: Date(deterministic), then tagging and verbalizing.         *)

Init ==
    /\ deterministic \in BOOLEAN
    /\ input \in Inputs
    /\ pc = "new"
    /\ records = {}
    /\ rec = <<>>
    /\ spoken = {}
    /\ years = {}

\* Date.__init__ in multi-output mode: build_tagger binds m_sep_d and builds
\* the tagger, build_verbalizer the verbalizer.
construct ==
    /\ pc = "new"
    /\ ~deterministic
    /\ pc' = "ready"
    /\ UNCHANGED <<deterministic, input, records, rec, spoken, years>>

\* Date.__init__ in single-output mode: build_tagger leaves m_sep_d unbound
\* and the first md_to_dm_curr of the lattice loop reads it; the
\* UnboundLocalError ends the construction, and no tagger or verbalizer exists.
construct_raises ==
    /\ pc = "new"
    /\ deterministic
    /\ pc' = "raised"
    /\ UNCHANGED <<deterministic, input, records, rec, spoken, years>>

\* The tagger on the input: every record of a path that reads it all.
tag_input ==
    /\ pc = "ready"
    /\ records' = tag(deterministic, input)
    /\ pc' = "tagged"
    /\ UNCHANGED <<deterministic, input, rec, spoken, years>>

\* A record with one more order field, field_order, before its closing brace.
with_field_order(r) == SubSeq(r, 1, Len(r) - 2) \o <<" ","f","i","e","l","d","_","o","r","d","e","r",":"," ","\"","d","\""," ","}">>

\* The verbalizer on one of the records, as it is or with a field_order field.
verbalize_record ==
    /\ pc = "tagged"
    /\ \E r \in records :
          /\ rec' \in {r, with_field_order(r)}
          /\ spoken' = verbalize(deterministic, rec')
    /\ pc' = "verbalized"
    /\ UNCHANGED <<deterministic, input, records, years>>

\* get_four_digit_year_graph, a module-level function, on the input.
four_digit_year ==
    /\ pc = "new"
    /\ years' = Full(get_four_digit_year_graph(deterministic, Start(input)))
    /\ pc' = "year"
    /\ UNCHANGED <<deterministic, input, records, rec, spoken>>

Next ==
    \/ construct
    \/ construct_raises
    \/ tag_input
    \/ verbalize_record
    \/ four_digit_year

Spec == Init /\ [][Next]_vars


-----------------------------------------------------------------------------
(* Reading a tagged record.                                                *)

\* The positions of a record at which the field `name` opens.
FieldAt(r, name) ==
    {i \in 1..Len(r) : IsPrefix(name \o <<":"," ","\"">>, Drop(r, i - 1))}

\* The value of the field `name` of a record that has it.
FieldValue(r, name) ==
    LET from == (CHOOSE i \in FieldAt(r, name) : TRUE) + Len(name) + 3
        to == CHOOSE j \in from..Len(r) :
                  r[j] = "\"" /\ \A k \in from..(j - 1) : r[k] # "\""
    IN  SubSeq(r, from, to - 1)

HasField(r, name) == FieldAt(r, name) # {}

\* s holds sub somewhere.
HasInfix(sub, s) == \E i \in 1..(Len(s) + 1) : IsPrefix(sub, Drop(s, i - 1))

\* The construction, the tagging or the verbalizing has ended.
Tagged == pc \in {"tagged", "verbalized"}

-----------------------------------------------------------------------------
(* C4: day numerals outside 1..31.                                         *)

InvalidDayInputs == {Template(k, D) : k \in DayOnlyTemplates, D \in InvalidDayNumerals}

DayFieldsValid(R) == \A r \in R : HasField(r, <<"d","a","y">>) => FieldValue(r, <<"d","a","y">>) \in day_tsv

\* C4: in every family and in both modes the tagger has no path that decodes
\* a day numeral outside 1..31: every day field of an emitted record spells a
\* day of 1..31, and an input whose day position holds 0, 00 or a numeral
\* above 31, with or without a leading zero or an ordinal suffix, has no
\* record; the single-output grammar, which is never built, has none either.
ThmC4 ==
    /\ Tagged => DayFieldsValid(records)
    /\ Tagged /\ input \in InvalidDayInputs => records = {}
    /\ pc = "raised" => DayFieldsValid(tag(TRUE, input))
    /\ pc = "raised" /\ input \in InvalidDayInputs => tag(TRUE, input) = {}

\* "JANUARY 32th" was tagged and has no record, while "JANUARY 31th" has one.
WitC4 ==
    \/ /\ pc = "tagged" /\ input = Template(3, <<"3","2">>) /\ records = {}
    \/ /\ pc = "tagged" /\ input = Template(3, <<"3","1">>)
       /\ \E r \in records : FieldValue(r, <<"d","a","y">>) = <<"t","h","i","r","t","y"," ","o","n","e">>

-----------------------------------------------------------------------------
(* C5: the day of the numeric day-month-year family.                       *)

\* The inputs "D/06/2012" whose D is an input of the month-number table.
MonthLedInputs == {Template(9, month_number_tsv[i][1]) : i \in DOMAIN month_number_tsv}

\* The leading numeral of such an input.
LeadNumeral(s) == SubSeq(s, 1, (CHOOSE i \in 1..Len(s) : s[i] = "/" /\ \A k \in 1..(i - 1) : s[k] # "/") - 1)

MonthWord(n) ==
    month_number_tsv[CHOOSE i \in DOMAIN month_number_tsv : month_number_tsv[i][1] = n][2]

\* C5: in the numeric day-month-year family a numeral of the month-number
\* table is never the day: every record of "D/06/2012" with D such a numeral
\* reads D as the month and 06 as the day, so none has the day D with the
\* month june unless D is 06 itself; "05/06/2012" has no record with day five.
ThmC5 ==
    /\ Tagged /\ input \in MonthLedInputs =>
           \A r \in records : /\ FieldValue(r, <<"m","o","n","t","h">>) = MonthWord(LeadNumeral(input))
                              /\ FieldValue(r, <<"d","a","y">>) = <<"s","i","x">>
    /\ Tagged /\ input = <<"0","5","/","0","6","/","2","0","1","2">> =>
           \A r \in records : FieldValue(r, <<"d","a","y">>) # <<"f","i","v","e">>

\* "05/06/2012" was tagged, with records that read it month first; and
\* "13/06/2012", whose 13 is no month number, has its day-first record.
WitC5 ==
    \/ /\ pc = "tagged" /\ input = <<"0","5","/","0","6","/","2","0","1","2">>
       /\ \E r \in records : FieldValue(r, <<"m","o","n","t","h">>) = <<"m","a","y">>
    \/ /\ pc = "tagged" /\ input = <<"1","3","/","0","6","/","2","0","1","2">>
       /\ \E r \in records : FieldValue(r, <<"d","a","y">>) = <<"t","h","i","r","t","e","e","n">>

-----------------------------------------------------------------------------
(* C8: the financial period.                                               *)

\* The period words the shorthand stands for, or none.
PeriodText(d, X) ==
    LET ordinal == CASE d = "1" -> <<"f","i","r","s","t">> [] d = "2" -> <<"s","e","c","o","n","d">>
                     [] d = "3" -> <<"t","h","i","r","d">> [] d = "4" -> <<"f","o","u","r","t","h">> [] OTHER -> <<>>
    IN  IF X = "H" /\ d \in {"1", "2"} THEN {ordinal \o <<" ","h","a","l","f">>}
        ELSE IF X = "Q" /\ d \in {"1", "2", "3", "4"} THEN {ordinal \o <<" ","q","u","a","r","t","e","r">>}
        ELSE {}

YearWords(yy) == IF yy = <<"2","3">> THEN <<"t","w","e","n","t","y"," ","t","h","r","e","e">> ELSE <<"z","e","r","o"," ","f","i","v","e">>

\* C8: a period shorthand d H yy (d of 1, 2) or d Q yy (d of 1..4) has the one
\* record text: "<ordinal> half|quarter" year: "<yy spoken>", which is
\* verbalized "the <text> of <year>"; any other digit has no record;
\* "1H23" gives "the first half of twenty three".
ThmC8 ==
    /\ Tagged /\ input \in PeriodInputs =>
           records = {<<"d","a","t","e"," ","{"," ","t","e","x","t",":"," ","\"">> \o t \o <<"\""," ","y","e","a","r",":"," ","\"">>
                          \o YearWords(SubSeq(input, 3, 4)) \o <<"\""," ","}">> :
                         t \in PeriodText(input[1], input[2])}
    /\ pc = "verbalized" /\ input \in PeriodInputs /\ rec \in records =>
           spoken = {<<"t","h","e"," ">> \o t \o <<" ","o","f"," ">> \o YearWords(SubSeq(input, 3, 4)) :
                        t \in PeriodText(input[1], input[2])}
    /\ pc = "verbalized" /\ input = <<"1","H","2","3">> /\ rec \in records =>
           spoken = {<<"t","h","e"," ","f","i","r","s","t"," ","h","a","l","f"," ","o","f"," ","t","w","e","n","t","y"," ","t","h","r","e","e">>}

\* "1H23" was tagged and verbalized; "3H23" was tagged and has no record.
WitC8 ==
    \/ /\ pc = "verbalized" /\ input = <<"1","H","2","3">> /\ rec \in records
       /\ spoken = {<<"t","h","e"," ","f","i","r","s","t"," ","h","a","l","f"," ","o","f"," ","t","w","e","n","t","y"," ","t","h","r","e","e">>}
    \/ /\ pc = "tagged" /\ input = <<"3","H","2","3">> /\ records = {}

-----------------------------------------------------------------------------
(* C7: the comma before the year.                                          *)

CommaRecord ==
    <<"d","a","t","e"," ","{"," ","m","o","n","t","h",":"," ","\"","j","a","n","u","a","r","y","\""," ","d","a","y",":"," ","\"","f","i","v","e","\""," ","y","e","a","r",":"," ","\"",","," ","t","w","e","n","t","y"," ","t","w","e","l","v","e","\""," ","p","r","e","s","e","r","v","e","_","o","r","d","e","r",":"," ","\"","t","r","u","e","\""," ","}">>

\* C7 as stated: "jan. 5, 2012" is tagged with the record month january, day
\* five, year ", twenty twelve", preserve_order, and that record is verbalized
\* exactly "january fifth twenty twelve", without the comma.
CexC7 ==
    /\ Tagged /\ input = <<"j","a","n","."," ","5",","," ","2","0","1","2">> => CommaRecord \in records
    /\ pc = "verbalized" /\ rec = CommaRecord => spoken = {<<"j","a","n","u","a","r","y"," ","f","i","f","t","h"," ","t","w","e","n","t","y"," ","t","w","e","l","v","e">>}

\* C7 as amended: "jan. 5, 2012" is tagged with that record, and the record
\* is verbalized with the comma of its year field kept as a word of its own,
\* "january fifth , twenty twelve" (the day also as the cardinal it is, the
\* grammar being multi-output), with no order-flag text in the output.
ThmC7 ==
    /\ Tagged /\ input = <<"j","a","n","."," ","5",","," ","2","0","1","2">> => CommaRecord \in records
    /\ pc = "verbalized" /\ rec = CommaRecord =>
           /\ spoken = {<<"j","a","n","u","a","r","y"," ","f","i","f","t","h"," ",","," ","t","w","e","n","t","y"," ","t","w","e","l","v","e">>, <<"j","a","n","u","a","r","y"," ","f","i","v","e"," ",","," ","t","w","e","n","t","y"," ","t","w","e","l","v","e">>}
           /\ \A o \in spoken : ~HasInfix(<<"o","r","d","e","r">>, o) /\ ~HasInfix(<<"t","r","u","e">>, o)

\* "jan. 5, 2012" was tagged and its record with the comma verbalized.
WitC7 ==
    /\ pc = "verbalized" /\ input = <<"j","a","n","."," ","5",","," ","2","0","1","2">> /\ rec = CommaRecord
    /\ <<"j","a","n","u","a","r","y"," ","f","i","f","t","h"," ",","," ","t","w","e","n","t","y"," ","t","w","e","l","v","e">> \in spoken

-----------------------------------------------------------------------------
(* C10: month-first or day-first.                                          *)

\* The day field of a record with both comes before its month field.
DayFirst(r) ==
    (CHOOSE i \in FieldAt(r, <<"d","a","y">>) : TRUE) < (CHOOSE i \in FieldAt(r, <<"m","o","n","t","h">>) : TRUE)

Flagless(r) == ~HasField(r, <<"p","r","e","s","e","r","v","e","_","o","r","d","e","r">>) /\ ~HasField(r, <<"f","i","e","l","d","_","o","r","d","e","r">>)

\* C10 as stated: a record with a day and a month and no order flag is
\* rendered month-first, whatever the textual order of its fields.
CexC10 ==
    pc = "verbalized" /\ HasField(rec, <<"d","a","y">>) /\ HasField(rec, <<"m","o","n","t","h">>) /\ Flagless(rec) =>
        spoken # {} /\ \A o \in spoken : ~IsPrefix(<<"t","h","e"," ">>, o)

\* C10 as amended: the rendering follows the textual order of the record's
\* fields, with or without an order flag: a record whose day field comes
\* first is rendered "the <ordinal day> of <month> ...", a record whose month
\* field comes first is rendered "<month> <day> ...".
ThmC10 ==
    pc = "verbalized" /\ HasField(rec, <<"d","a","y">>) /\ HasField(rec, <<"m","o","n","t","h">>) =>
        /\ spoken # {}
        /\ \A o \in spoken :
               IF DayFirst(rec)
               THEN /\ IsPrefix(<<"t","h","e"," ">>, o)
                    /\ HasInfix(<<" ","o","f"," ">> \o FieldValue(rec, <<"m","o","n","t","h">>), o)
               ELSE IsPrefix(FieldValue(rec, <<"m","o","n","t","h">>) \o <<" ">>, o)

\* The flagless day-first record of "2012-01-05" was verbalized day-first.
WitC10 ==
    /\ pc = "verbalized"
    /\ rec = <<"d","a","t","e"," ","{"," ","d","a","y",":"," ","\"","f","i","v","e","\""," ","m","o","n","t","h",":"," ","\"","j","a","n","u","a","r","y","\""," ","y","e","a","r",":"," ","\"","t","w","e","n","t","y"," ","t","w","e","l","v","e","\""," ","}">>
    /\ spoken = {<<"t","h","e"," ","f","i","f","t","h"," ","o","f"," ","j","a","n","u","a","r","y"," ","t","w","e","n","t","y"," ","t","w","e","l","v","e">>}

-----------------------------------------------------------------------------
(* C1, C2, C3, C6: single-output mode.                                     *)

\* C1 as stated: in single-output mode an input the tagger accepts has exactly
\* one record, and that record exactly one spoken form; so the construction
\* has not raised, the tagging leaves one record and the verbalizing one form.
CexC1 ==
    deterministic /\ tag(TRUE, input) # {} =>
        /\ pc # "raised"
        /\ Tagged => Cardinality(records) = 1
        /\ pc = "verbalized" => Cardinality(spoken) = 1

\* C2 as stated: for an input accepted in both modes, the record emitted in
\* single-output mode is one of the records of multi-output mode.
CexC2 ==
    deterministic /\ tag(TRUE, input) # {} /\ tag(FALSE, input) # {} =>
        /\ pc # "raised"
        /\ Tagged => records # {} /\ records \subseteq tag(FALSE, input)

\* C3 as stated: in single-output mode every record the tagger emits carries
\* preserve_order: "true", whichever family the input belongs to.
CexC3 ==
    deterministic /\ tag(TRUE, input) # {} =>
        /\ pc # "raised"
        /\ Tagged => records # {}
                     /\ \A r \in records : HasInfix(<<" ","p","r","e","s","e","r","v","e","_","o","r","d","e","r",":"," ","\"","t","r","u","e","\"">>, r)

YmdInputs == {Ymd(Y, MM, DD) : Y \in YmdYears, MM \in YmdMonths, DD \in YmdDays}

\* The named-month input of the date a year-month-day input writes.
NamedOf(s) == Named(SubSeq(s, 1, 4), SubSeq(s, 6, 7), SubSeq(s, 9, 10))

\* A spoken form without its punctuation and spacing.
Letters(o) == SelectSeq(o, LAMBDA c : c \notin {",", " "})

\* C6 as stated: in single-output mode "Y-MM-DD", tagged and verbalized, gives
\* the spoken month, ordinal day and year that "<abbr>. D, Y" gives, up to
\* punctuation.
CexC6 ==
    deterministic /\ input \in YmdInputs =>
        /\ pc # "raised"
        /\ pc = "verbalized" /\ rec \in records =>
               /\ spoken # {}
               /\ {Letters(o) : o \in spoken}
                  = {Letters(o) : o \in UNION {verbalize(TRUE, r) : r \in tag(TRUE, NamedOf(input))}}

-----------------------------------------------------------------------------
(* C9: decade plurals.                                                     *)

\* The four-digit numerals d1 d2 d3 "0" with d3 # 0, followed by "s".
DecadeInputs == {y \in YearInputs : Len(y) = 5 /\ y[3] # "0" /\ y[4] = "0"}

\* The spoken decade the claim names: the first two digits' word, and the
\* tens word of the third pluralized.
Decade(y) ==
    {w \o <<" ">> \o plural_rewrite(t) :
        w \in Full(cardinal_graph(Start(SubSeq(y, 1, 2)))),
        t \in Full(ties_graph(Start(<<y[3]>>))) \cup Full(cross(Start(<<y[3]>>), <<"1">>, <<"t","e","n">>))}

\* C9 as stated: the four-digit year grammar accepts every d1 d2 d3 "0s" with
\* d3 # 0 and yields that spoken decade, whether the first two digits are a
\* teen or a tens/ones pair.
CexC9 ==
    pc = "year" /\ input \in DecadeInputs =>
        years # {} /\ Decade(input) \subseteq years


-----------------------------------------------------------------------------
(* C11: the thousand form before the paired and hundred forms.             *)

\* The inputs the thousand form reads: X000, X00Y with Y nonzero, X000s.
ThousandInputs ==
    {y \in YearInputs : /\ y[2] = "0" /\ y[3] = "0"
                        /\ Len(y) = 5 => y[4] = "0"}

\* The thousand form of such an input.
ThousandWord(y) ==
    LET word(d) == digit_tsv[CHOOSE i \in DOMAIN digit_tsv : digit_tsv[i][1] = <<d>>][2]
    IN  word(y[1]) \o <<" ","t","h","o","u","s","a","n","d">>
        \o (IF Len(y) = 5 THEN <<"s">> ELSE IF y[4] = "0" THEN <<>> ELSE <<" ">> \o word(y[4]))

\* The paired, hundred and plural forms of an input.
PairedWords(det, y) == Full(paired_graph(det, <<<<>>, y>>))

\* C11: of an input the thousand form reads (X000, X00Y, X000s) the
\* single-output four-digit year grammar yields the thousand form alone, the
\* multi-output grammar the thousand form and every paired or hundred form
\* that reads it; any other input keeps its paired or hundred output, without
\* a thousand form, in both modes.
ThmC11 ==
    /\ pc = "year" /\ input \in ThousandInputs /\ deterministic =>
           years = {ThousandWord(input)}
    /\ pc = "year" /\ input \in ThousandInputs /\ ~deterministic =>
           /\ PairedWords(FALSE, input) # {}
           /\ ThousandWord(input) \notin PairedWords(FALSE, input)
           /\ years = {ThousandWord(input)} \cup PairedWords(FALSE, input)
    /\ pc = "year" /\ input \in YearInputs \ ThousandInputs =>
           /\ years = PairedWords(deterministic, input)
           /\ \A y \in years : ~HasInfix(<<"t","h","o","u","s","a","n","d">>, y)
    /\ pc = "year" /\ input = <<"2","0","0","0">> =>
           years = IF deterministic THEN {<<"t","w","o"," ","t","h","o","u","s","a","n","d">>}
                   ELSE {<<"t","w","o"," ","t","h","o","u","s","a","n","d">>, <<"t","w","e","n","t","y"," ","h","u","n","d","r","e","d">>}
    /\ pc = "year" /\ input = <<"2","0","0","5">> =>
           years = IF deterministic THEN {<<"t","w","o"," ","t","h","o","u","s","a","n","d"," ","f","i","v","e">>}
                   ELSE {<<"t","w","o"," ","t","h","o","u","s","a","n","d"," ","f","i","v","e">>, <<"t","w","e","n","t","y"," ","o","h"," ","f","i","v","e">>, <<"t","w","e","n","t","y"," ","z","e","r","o"," ","f","i","v","e">>}
    /\ pc = "year" /\ input = <<"2","0","0","0","s">> =>
           years = IF deterministic THEN {<<"t","w","o"," ","t","h","o","u","s","a","n","d","s">>}
                   ELSE {<<"t","w","o"," ","t","h","o","u","s","a","n","d","s">>, <<"t","w","e","n","t","y"," ","h","u","n","d","r","e","d","s">>}
    /\ pc = "year" /\ input = <<"1","9","8","5">> => years = {<<"n","i","n","e","t","e","e","n"," ","e","i","g","h","t","y"," ","f","i","v","e">>}

\* get_four_digit_year_graph(deterministic=True) read "2005" and gave the
\* thousand form alone.
WitC11 ==
    pc = "year" /\ deterministic /\ input = <<"2","0","0","5">> /\ years = {<<"t","w","o"," ","t","h","o","u","s","a","n","d"," ","f","i","v","e">>}

====
